---------------------------- MODULE Spec2Model ----------------------------
(***************************************************************************)
(* Verified Health Scoring Pipeline.                                       *)
(*                                                                         *)
(* Three programs are modelled:                                            *)
(*   - the browser-side sync coordinator of src/healthApiIntegration.js    *)
(*     (healthState, fetchHealthStatus, syncHealthData,                    *)
(*     calculateHealthPoints), specification Spec / FairSpec;              *)
(*   - the device-side HealthKitManager of src/webpage.jsx, lines          *)
(*     1493-1811 (fetchVerifiedHealthData, validateDataConsistency,        *)
(*     createVerifiedData), specification SpecPipeline;                    *)
(*   - the React client of src/webpage.jsx, lines 1-1492: request          *)
(*     (FairSpecRequest), useAuthProvider (SpecAuthProvider) and           *)
(*     HabitLogForm (SpecHabitLog).                                        *)
(* validateDataConsistency and calculateHealthPoints are also run on       *)
(* arguments at their thresholds, specifications SpecValidator and         *)
(* SpecPoints.                                                             *)
(*                                                                         *)
(* JavaScript runs each handler to completion between awaits, so one       *)
(* action is one run-to-completion segment of an async function.           *)
(***************************************************************************)
EXTENDS Integers, Sequences, FiniteSets, TLC

VARIABLES
    healthState,     \* the healthState object (healthApiIntegration.js:8-20)
    userScore,       \* state.matchup.userScore
    weekPoints,      \* state.weekPoints
    now,             \* the wall clock read by new Date() / Date()
    syncs,           \* the syncHealthData invocations made so far
    nSync,           \* number of syncHealthData invocations made so far
    pendingFetches,  \* fetchHealthStatus invocations awaiting their response
    nFetch,          \* number of fetchHealthStatus invocations made so far
    signingKey,      \* HealthKitManager.signingKey (webpage.jsx:1504)
    store,           \* the samples the HKHealthStore holds for the day
    pipe,            \* the running fetchVerifiedHealthData invocation
    results,         \* how the fetchVerifiedHealthData invocations ended
    fnArg,           \* the RawHealthData handed to validateDataConsistency
    vResult,         \* what that call of validateDataConsistency decided
    evals,           \* the calls of calculateHealthPoints made from outside a sync
    req,             \* the running call of request() (webpage.jsx:23-69)
    form,            \* HabitLogForm: formData and the payload last submitted
    auth             \* useAuthProvider: token, user and the calls in flight

jsVars == <<healthState, userScore, weekPoints, syncs, nSync, pendingFetches, nFetch>>

hkVars == <<signingKey, store, pipe, results>>

fnVars == <<fnArg, vResult, evals>>

uiVars == <<req, form, auth>>

vars == <<healthState, userScore, weekPoints, now, syncs, nSync, pendingFetches,
          nFetch, signingKey, store, pipe, results, fnArg, vResult, evals, req, form,
          auth>>

---------------------------------------------------------------------------
(* Bounds of the model *)

MaxSyncs == 2
MaxFetches == 2
MaxTime == 2
MaxRuns == 2

---------------------------------------------------------------------------
(* JavaScript values *)

\* null in the lastSync field: no date, encoded before every clock reading
Null == -1
\* the empty array [] in the workouts field, which otherwise holds a count
EmptyArray == -1
\* the value of a missing field, and of a promise that resolves with nothing
Undefined == "undefined"

\* Math.floor(num / den) for den > 0
MathFloor(num, den) == num \div den

\* Math.round(num / den) for den > 0: the nearest integer, halves rounded up
MathRound(num, den) == (2 * num + den) \div (2 * den)

\* Number(x) as applied by the * operator: [] converts to 0
ToNumber(x) == IF x = EmptyArray THEN 0 ELSE x

\* x || 0 : a falsy number (0) gives 0, an array is truthy
OrZero(x) == IF x = 0 THEN 0 ELSE x

---------------------------------------------------------------------------
(* calculateHealthPoints, healthApiIntegration.js:92-110 *)

\* line 93 written  let points = healthState.points
calculateHealthPointsFromStored(data) ==
    LET p0 == healthState.points
        p1 == p0 + MathFloor(data.steps, 1000)
        p2 == p1 + MathFloor(data.calories, 100)
        p3 == p2 + ToNumber(OrZero(data.workouts)) * 5
        p4 == IF data.distance > 5 THEN p3 + (data.distance - 5) * 2 ELSE p3
    IN  MathRound(p4 * 10, 1) \div 10

\* line 106 written  points += data.distance - 5
calculateHealthPointsSingleBonus(data) ==
    LET p0 == 0
        p1 == p0 + MathFloor(data.steps, 1000)
        p2 == p1 + MathFloor(data.calories, 100)
        p3 == p2 + ToNumber(OrZero(data.workouts)) * 5
        p4 == IF data.distance > 5 THEN p3 + (data.distance - 5) ELSE p3
    IN  MathRound(p4 * 10, 1) \div 10

calculateHealthPoints(data) ==
    LET p0 == 0
        p1 == p0 + MathFloor(data.steps, 1000)
        p2 == p1 + MathFloor(data.calories, 100)
        p3 == p2 + ToNumber(OrZero(data.workouts)) * 5
        p4 == IF data.distance > 5 THEN p3 + (data.distance - 5) * 2 ELSE p3
    IN  MathRound(p4 * 10, 1) \div 10

---------------------------------------------------------------------------
(* The mock data of one sync, healthApiIntegration.js:57-62.               *)
(* Math.random() is an input: the extremes of every range are drawn.       *)

MockSteps == {7000, 11999}
MockCalories == {650}
MockDistance == {5, 7}
MockWorkouts == {1}

MockData ==
    [steps : MockSteps, calories : MockCalories, distance : MockDistance,
     workouts : MockWorkouts, heartRate : {Undefined}]

NoMock == [steps |-> 0, calories |-> 0, distance |-> 0, workouts |-> 0,
           heartRate |-> Undefined]

(* The responses of GET /status/:user, healthApiIntegration.js:25-26.      *)
(* averageSteps and averageCalories are given in tenths, averageDistance   *)
(* in metres.                                                              *)
StatScale == 10

Statistics ==
    { [averageSteps |-> 74995, averageCalories |-> 4204, averageDistance |-> 6500],
      [averageSteps |-> 120000, averageCalories |-> 6500, averageDistance |-> 5400] }

---------------------------------------------------------------------------
(* Initial state, healthApiIntegration.js:8-20 *)

InitHealthState ==
    [lastSync |-> Null,
     isSyncing |-> FALSE,
     data |-> [steps |-> 0, calories |-> 0, distance |-> 0,
               workouts |-> EmptyArray, heartRate |-> "0"],
     points |-> 0,
     status |-> "not-synced"]

NewCall == [pc |-> "new", mock |-> NoMock, ret |-> "none", toast |-> "none",
            startedAt |-> 0]

\* request() before its first call: no attempt made, no response seen
IdleRequest ==
    [pc |-> "idle", i |-> 0, attempts |-> 0, seen |-> <<>>, n |-> 0]

\* the habit fields of the form that are modelled, of lines 449-456
HabitKeys == {"sleep", "study", "nutrition"}

\* a value of formData: a key that is not set, null, NaN, or a number given
\* in tenths
Absent == [t |-> "absent", n |-> 0]
JsNull == [t |-> "null", n |-> 0]
NaN == [t |-> "NaN", n |-> 0]
Num(x) == [t |-> "number", n |-> x]

\* line 422 with initialData = {} and nothing submitted
InitForm ==
    [formData |-> [k \in HabitKeys |-> Absent], sent |-> <<>>, nSubmit |-> 0]

\* lines 102-104 and an empty localStorage
InitAuth ==
    [token |-> "none", user |-> "null", loading |-> TRUE, error |-> "null",
     mounted |-> FALSE, calls |-> <<>>, loggedOut |-> FALSE]

InitUi ==
    /\ req = IdleRequest
    /\ form = InitForm
    /\ auth = InitAuth

InitJs ==
    /\ healthState = InitHealthState
    /\ userScore = 0
    /\ weekPoints = 0
    /\ syncs = [i \in 1..MaxSyncs |-> NewCall]
    /\ nSync = 0
    /\ pendingFetches = 0
    /\ nFetch = 0

Init ==
    /\ InitJs
    /\ now = 0
    /\ signingKey = "key-A"
    /\ store = [stepCount |-> <<>>, activeEnergyBurned |-> <<>>,
                distanceWalkingRunning |-> <<>>, heartRate |-> <<>>,
                workouts |-> <<>>]
    /\ pipe = [pc |-> "idle", date |-> 0, steps |-> 0, calories |-> 0,
               distance |-> 0, workouts |-> <<>>]
    /\ results = <<>>
    /\ fnArg = <<>>
    /\ vResult = [reason |-> "pending", at |-> 0]
    /\ evals = <<>>
    /\ InitUi

---------------------------------------------------------------------------
(* The clock: time passes between handlers and never runs backwards *)

Tick ==
    /\ now < MaxTime
    /\ now' = now + 1
    /\ UNCHANGED <<jsVars, hkVars, fnVars, uiVars>>

---------------------------------------------------------------------------
(* fetchHealthStatus, healthApiIntegration.js:23-46 *)

\* line 25: the request is sent and the function suspends
FetchStatusStart ==
    /\ nFetch < MaxFetches
    /\ nFetch' = nFetch + 1
    /\ pendingFetches' = pendingFetches + 1
    /\ UNCHANGED <<healthState, userScore, weekPoints, now, syncs, nSync, hkVars, fnVars, uiVars>>

\* lines 28-38 without line 37: lastSync is left as it was
FetchStatusHasDataNoTimestamp(s) ==
    /\ pendingFetches > 0
    /\ pendingFetches' = pendingFetches - 1
    /\ healthState' =
          [healthState EXCEPT
              !.data = [steps |-> MathRound(s.averageSteps, StatScale),
                        calories |-> MathRound(s.averageCalories, StatScale),
                        distance |-> MathRound(s.averageDistance, 1000),
                        workouts |-> EmptyArray,
                        heartRate |-> "0"],
              !.status = "synced"]
    /\ UNCHANGED <<userScore, weekPoints, now, syncs, nSync, nFetch, hkVars, fnVars, uiVars>>

\* lines 28-38: the response says hasData and carries statistics
FetchStatusHasData(s) ==
    /\ pendingFetches > 0
    /\ pendingFetches' = pendingFetches - 1
    /\ healthState' =
          [healthState EXCEPT
              !.data = [steps |-> MathRound(s.averageSteps, StatScale),
                        calories |-> MathRound(s.averageCalories, StatScale),
                        distance |-> MathRound(s.averageDistance, 1000),
                        workouts |-> EmptyArray,
                        heartRate |-> "0"],
              !.status = "synced",
              !.lastSync = now]
    /\ UNCHANGED <<userScore, weekPoints, now, syncs, nSync, nFetch, hkVars, fnVars, uiVars>>

\* line 28 false: the response says hasData is false
FetchStatusNoData ==
    /\ pendingFetches > 0
    /\ pendingFetches' = pendingFetches - 1
    /\ UNCHANGED <<healthState, userScore, weekPoints, now, syncs, nSync, nFetch, hkVars, fnVars, uiVars>>

\* lines 41-45 with the catch block also resetting isSyncing
FetchStatusErrorClearsSyncing ==
    /\ pendingFetches > 0
    /\ pendingFetches' = pendingFetches - 1
    /\ healthState' = [healthState EXCEPT !.status = "error", !.isSyncing = FALSE]
    /\ UNCHANGED <<userScore, weekPoints, now, syncs, nSync, nFetch, hkVars, fnVars, uiVars>>

\* lines 41-45: fetch or response.json() rejects, or the body is malformed
FetchStatusError ==
    /\ pendingFetches > 0
    /\ pendingFetches' = pendingFetches - 1
    /\ healthState' = [healthState EXCEPT !.status = "error"]
    /\ UNCHANGED <<userScore, weekPoints, now, syncs, nSync, nFetch, hkVars, fnVars, uiVars>>

fetchHealthStatus ==
    \/ FetchStatusStart
    \/ \E s \in Statistics : FetchStatusHasData(s)
    \/ FetchStatusNoData
    \/ FetchStatusError

---------------------------------------------------------------------------
(* syncHealthData, healthApiIntegration.js:48-90 *)

\* the guard left out: every request starts a pipeline
SyncGuardMissing == FALSE

\* line 49: the guard of syncHealthData
SyncGuardRejects == healthState.isSyncing

\* the guard moved inside the try block: the early return runs the finally block
SyncRejectedInsideTry(i) ==
    /\ SyncGuardRejects
    /\ syncs' = [syncs EXCEPT ![i] = [NewCall EXCEPT !.pc = "rejected",
                                                   !.ret = Undefined]]
    /\ healthState' = [healthState EXCEPT !.isSyncing = FALSE]
    /\ UNCHANGED <<userScore, weekPoints>>

\* line 49: if (healthState.isSyncing) return;
SyncRejected(i) ==
    /\ SyncGuardRejects
    /\ syncs' = [syncs EXCEPT ![i] = [NewCall EXCEPT !.pc = "rejected",
                                                   !.ret = Undefined]]
    /\ UNCHANGED <<healthState, userScore, weekPoints>>

\* lines 51-65: the flag is set, the mock data drawn, the timer started
SyncStart(i, m) ==
    /\ ~SyncGuardRejects
    /\ healthState' = [healthState EXCEPT !.isSyncing = TRUE]
    /\ syncs' = [syncs EXCEPT ![i] = [NewCall EXCEPT !.pc = "awaiting",
                                                   !.mock = m,
                                                   !.startedAt = now]]
    /\ UNCHANGED <<userScore, weekPoints>>

\* one call of syncHealthData() up to its first suspension or return
SyncCall ==
    /\ nSync < MaxSyncs
    /\ nSync' = nSync + 1
    /\ \/ SyncRejected(nSync + 1)
       \/ \E m \in MockData : SyncStart(nSync + 1, m)
    /\ UNCHANGED <<now, pendingFetches, nFetch, hkVars, fnVars, uiVars>>

\* the timestamp taken when the sync was requested instead of when it ended
SyncTimestampAtStart(i) == syncs[i].startedAt

\* line 70: the timestamp a sync records, new Date()
SyncTimestamp(i) == now

\* the finally block left out
SyncFinallyMissing(h) == h

\* lines 86-89: the finally block
SyncFinally(h) == [h EXCEPT !.isSyncing = FALSE]

\* the catch block without its status assignment
SyncCatchNoStatus(h) == h

\* lines 81-85: the catch block
SyncCatch(h) == [h EXCEPT !.status = "error"]

\* lines 67-70: the result of the sync is stored
SyncStore(i) ==
    [healthState EXCEPT
        !.data = syncs[i].mock,
        !.points = calculateHealthPoints(syncs[i].mock),
        !.status = "synced",
        !.lastSync = SyncTimestamp(i)]

\* lines 67-80 and 86-89: the timer fires and nothing throws
SyncSucceeds(i) ==
    /\ syncs[i].pc = "awaiting"
    /\ healthState' = SyncFinally(SyncStore(i))
    /\ userScore' = userScore + SyncStore(i).points
    /\ weekPoints' = weekPoints + SyncStore(i).points
    /\ syncs' = [syncs EXCEPT ![i] = [@ EXCEPT !.pc = "ok", !.mock = NoMock,
                                               !.startedAt = 0,
                                               !.ret = Undefined,
                                               !.toast = "synced"]]
    /\ UNCHANGED <<now, nSync, pendingFetches, nFetch, hkVars, fnVars, uiVars>>

\* lines 67-76 or 67-77, then 81-89: saveState() or updateUI() throws
\* after the scores were added; the catch block runs, then the finally block
SyncThrows(i) ==
    /\ syncs[i].pc = "awaiting"
    /\ healthState' = SyncFinally(SyncCatch(SyncStore(i)))
    /\ userScore' = userScore + SyncStore(i).points
    /\ weekPoints' = weekPoints + SyncStore(i).points
    /\ syncs' = [syncs EXCEPT ![i] = [@ EXCEPT !.pc = "failed", !.mock = NoMock,
                                               !.startedAt = 0,
                                               !.ret = Undefined,
                                               !.toast = "failed"]]
    /\ UNCHANGED <<now, nSync, pendingFetches, nFetch, hkVars, fnVars, uiVars>>

\* the continuation of a suspended sync
SyncResume ==
    \E i \in 1..MaxSyncs :
        \/ SyncSucceeds(i)
        \/ SyncThrows(i)

---------------------------------------------------------------------------
(* HealthKitManager, webpage.jsx:1493-1753.                                *)
(* Doubles are modelled by integers: step counts, kilocalories, metres,    *)
(* seconds and beats per minute are drawn as whole numbers, and dates are  *)
(* readings of the clock now.                                              *)

Abs(x) == IF x < 0 THEN -x ELSE x

RECURSIVE SumValuesDropsLast(_)
\* the reduce stopping one sample short
SumValuesDropsLast(samples) ==
    IF Len(samples) <= 1 THEN 0
    ELSE Head(samples).value + SumValuesDropsLast(Tail(samples))

RECURSIVE SumValues(_)
\* samples.reduce(0.0) { sum, sample in sum + sample.quantity... }
SumValues(samples) ==
    IF samples = <<>> THEN 0
    ELSE Head(samples).value + SumValues(Tail(samples))

RECURSIVE InsertByStart(_, _, _)
\* x put into the sorted sequence seq, after the elements that sort before it
InsertByStart(x, seq, forward) ==
    IF seq = <<>> THEN <<x>>
    ELSE IF (forward /\ x.startDate < Head(seq).startDate)
            \/ (~forward /\ x.startDate > Head(seq).startDate)
         THEN <<x>> \o seq
         ELSE <<Head(seq)>> \o InsertByStart(x, Tail(seq), forward)

RECURSIVE SortByStart(_, _)
\* SortDescriptor(\.startDate, order: .forward / .reverse)
SortByStart(seq, forward) ==
    IF seq = <<>> THEN <<>>
    ELSE InsertByStart(seq[Len(seq)], SortByStart(SubSeq(seq, 1, Len(seq) - 1), forward),
                       forward)

\* fetchSamples, webpage.jsx:1649-1671: the day's samples, oldest first
fetchSamples(type) == SortByStart(store[type], TRUE)

\* fetchSteps, webpage.jsx:1568-1578
fetchSteps == SumValues(fetchSamples("stepCount"))

\* fetchCalories, webpage.jsx:1580-1589
fetchCalories == SumValues(fetchSamples("activeEnergyBurned"))

\* fetchDistance, webpage.jsx:1591-1600
fetchDistance == SumValues(fetchSamples("distanceWalkingRunning"))

\* the sort descriptor of line 1616 written order: .forward
fetchWorkoutsOldestFirst == SortByStart(store["workouts"], TRUE)

\* fetchWorkouts, webpage.jsx:1602-1633: the day's workouts, newest first
fetchWorkouts == SortByStart(store["workouts"], FALSE)

\* fetchHeartRateReadings, webpage.jsx:1635-1645
fetchHeartRateReadings ==
    LET samples == fetchSamples("heartRate")
    IN  [k \in 1..Len(samples) |->
            [bpm |-> samples[k].value, timestamp |-> samples[k].startDate]]

\* getDeviceInfo, webpage.jsx:1746-1752
getDeviceInfo ==
    [model |-> "iPhone", systemVersion |-> "17.0", identifierForVendor |-> "unknown"]

(* validateDataConsistency, webpage.jsx:1675-1722 *)

Valid == "valid"

\* the comparison of line 1681 written >= : a variance of exactly 0.5 fails
DistanceVarianceHalfOrMore(data) ==
    2 * Abs(4 * data.distance - 3 * data.steps) >= 3 * data.steps

\* lines 1678-1679 and the comparison of line 1681: distanceVariance > 0.5
\* with expectedDistance = steps * 0.75.  For whole steps > 0 and whole
\* distance, |distance - e| / e > 1/2 iff 2 * |4 * distance - 3 * steps| >
\* 3 * steps, and the double quotient rounds to the same side of 0.5.
DistanceVarianceOverHalf(data) ==
    2 * Abs(4 * data.distance - 3 * data.steps) > 3 * data.steps

RECURSIVE SumWorkoutCalories(_)
\* line 1687: data.workouts.reduce(0.0) { $0 + $1.calories }
SumWorkoutCalories(ws) ==
    IF ws = <<>> THEN 0 ELSE Head(ws).calories + SumWorkoutCalories(Tail(ws))

RECURSIVE CheckWorkoutsFromNow(_, _)
\* line 1700 written >= : a workout that starts now counts as in the future
CheckWorkoutsFromNow(ws, t) ==
    IF ws = <<>> THEN Valid
    ELSE IF Head(ws).duration > 86400 THEN "Workout duration exceeds 24 hours"
    ELSE IF Head(ws).startDate >= t THEN "Workout in the future"
    ELSE CheckWorkoutsFromNow(Tail(ws), t)

RECURSIVE CheckWorkouts(_, _)
\* lines 1693-1703: the first workout that fails decides the reason
CheckWorkouts(ws, t) ==
    IF ws = <<>> THEN Valid
    ELSE IF Head(ws).duration > 86400 THEN "Workout duration exceeds 24 hours"
    ELSE IF Head(ws).startDate > t THEN "Workout in the future"
    ELSE CheckWorkouts(Tail(ws), t)

RECURSIVE CheckHeartRateInclusive(_)
\* line 1709 written <= and >= : readings of exactly 30 and 250 fail
CheckHeartRateInclusive(rs) ==
    IF rs = <<>> THEN Valid
    ELSE IF Head(rs).bpm <= 30 \/ Head(rs).bpm >= 250
         THEN "Heart rate outside realistic range"
    ELSE CheckHeartRateInclusive(Tail(rs))

RECURSIVE CheckHeartRate(_)
\* lines 1706-1712
CheckHeartRate(rs) ==
    IF rs = <<>> THEN Valid
    ELSE IF Head(rs).bpm < 30 \/ Head(rs).bpm > 250
         THEN "Heart rate outside realistic range"
    ELSE CheckHeartRate(Tail(rs))

\* the calorie cap of lines 1719-1721 left out
CheckCapsStepsOnly(data) ==
    IF data.steps > 100000 THEN "Unrealistic step count" ELSE Valid

\* lines 1714-1721
CheckCaps(data) ==
    IF data.steps > 100000 THEN "Unrealistic step count"
    ELSE IF data.calories > 10000 THEN "Unrealistic calorie burn"
    ELSE Valid

\* the absolute caps checked before the per-sample rules
validateCapsFirst(data, t) ==
    IF data.steps > 1000 /\ DistanceVarianceOverHalf(data)
    THEN "Steps and distance don't correlate"
    ELSE IF data.calories > 0 /\ SumWorkoutCalories(data.workouts) = 0 /\ data.steps < 100
    THEN "Calories burned without activity"
    ELSE IF CheckCaps(data) # Valid THEN CheckCaps(data)
    ELSE IF CheckWorkouts(data.workouts, t) # Valid THEN CheckWorkouts(data.workouts, t)
    ELSE CheckHeartRate(data.heartRateReadings)

\* line 1688 written data.steps <= 100
validateCaloriesAtHundredSteps(data, t) ==
    IF data.steps > 1000 /\ DistanceVarianceOverHalf(data)
    THEN "Steps and distance don't correlate"
    ELSE IF data.calories > 0 /\ SumWorkoutCalories(data.workouts) = 0 /\ data.steps <= 100
    THEN "Calories burned without activity"
    ELSE IF CheckWorkouts(data.workouts, t) # Valid THEN CheckWorkouts(data.workouts, t)
    ELSE IF CheckHeartRate(data.heartRateReadings) # Valid
    THEN CheckHeartRate(data.heartRateReadings)
    ELSE CheckCaps(data)

\* line 1688 written data.calories >= 0
validateCaloriesNotNegative(data, t) ==
    IF data.steps > 1000 /\ DistanceVarianceOverHalf(data)
    THEN "Steps and distance don't correlate"
    ELSE IF data.calories >= 0 /\ SumWorkoutCalories(data.workouts) = 0 /\ data.steps < 100
    THEN "Calories burned without activity"
    ELSE IF CheckWorkouts(data.workouts, t) # Valid THEN CheckWorkouts(data.workouts, t)
    ELSE IF CheckHeartRate(data.heartRateReadings) # Valid
    THEN CheckHeartRate(data.heartRateReadings)
    ELSE CheckCaps(data)

\* the reason thrown as HealthKitError.inconsistentData, or Valid; t is the
\* reading of Date() at line 1700
validateDataConsistency(data, t) ==
    IF data.steps > 1000 /\ DistanceVarianceOverHalf(data)
    THEN "Steps and distance don't correlate"
    ELSE IF data.calories > 0 /\ SumWorkoutCalories(data.workouts) = 0 /\ data.steps < 100
    THEN "Calories burned without activity"
    ELSE IF CheckWorkouts(data.workouts, t) # Valid THEN CheckWorkouts(data.workouts, t)
    ELSE IF CheckHeartRate(data.heartRateReadings) # Valid
    THEN CheckHeartRate(data.heartRateReadings)
    ELSE CheckCaps(data)

(* createVerifiedData, webpage.jsx:1726-1742 *)

\* the keys of RawHealthData (webpage.jsx:1757-1766) in the orders the
\* encoder may write them: line 1728 sets no .sortedKeys, which leaves the
\* order of the keys to the encoder's dictionary; the declared order and one
\* other order stand for all of them
KeyOrders ==
    { <<"date", "steps", "calories", "distance", "workouts",
        "heartRateReadings", "deviceInfo", "timestamp">>,
      <<"timestamp", "deviceInfo", "heartRateReadings", "workouts",
        "distance", "calories", "steps", "date">> }

\* line 1730: JSONEncoder.encode: the key and value of every field of
\* RawHealthData, written in the order keys
JSONEncode(rawData, keys) ==
    [i \in 1..Len(keys) |-> <<keys[i], rawData[keys[i]]>>]

\* line 1734: HMAC<SHA256>.authenticationCode(for:using:), a keyed tag that
\* differs whenever the key or the message differs
HMAC(message, key) == <<"HMAC-SHA256", key, message>>

\* keys is the order the encoder of line 1728 writes in this call
createVerifiedData(rawData, keys) ==
    [rawData |-> rawData,
     signature |-> HMAC(JSONEncode(rawData, keys), signingKey),
     version |-> "1.0"]

\* verifyRecord(record, key): the MAC recomputed over a new serialization of
\* record.rawData equals record.signature; keys is the order the encoder
\* writes in this call
verifyRecord(record, key, keys) ==
    HMAC(JSONEncode(record.rawData, keys), key) = record.signature

(* The samples of the store: what the queries of the day can return *)

Sample(v, t) == [value |-> v, startDate |-> t]

StepStreams == { <<>>, <<Sample(1200, 1), Sample(800, 0)>>, <<Sample(150000, 0)>> }

CalorieStreams == { <<>>, <<Sample(50, 0)>>, <<Sample(12000, 0), Sample(8000, 1)>> }

DistanceStreams == { <<>>, <<Sample(900, 0), Sample(600, 1)>>, <<Sample(112500, 0)>> }

HeartRateStreams == { <<>>, <<Sample(250, 1), Sample(30, 0)>>, <<Sample(29, 0)>> }

Workout(dur, cal, start) ==
    [type |-> 37, duration |-> dur, calories |-> cal, distance |-> 0,
     startDate |-> start, endDate |-> start, source |-> "com.apple.health"]

WorkoutStreams ==
    { <<>>, <<Workout(3600, 300, 0)>>, <<Workout(90000, 300, 0)>>,
      <<Workout(1800, 0, MaxTime)>>,
      <<Workout(90000, 300, 0), Workout(1800, 0, MaxTime)>> }

SigningKeys == {"key-A"}

EmptyStore ==
    [stepCount |-> <<>>, activeEnergyBurned |-> <<>>, distanceWalkingRunning |-> <<>>,
     heartRate |-> <<>>, workouts |-> <<>>]

Stores ==
    [stepCount : StepStreams, activeEnergyBurned : CalorieStreams,
     distanceWalkingRunning : DistanceStreams, heartRate : HeartRateStreams,
     workouts : WorkoutStreams]

(* fetchVerifiedHealthData, webpage.jsx:1537-1564 *)

IdlePipe ==
    [pc |-> "idle", date |-> 0, steps |-> 0, calories |-> 0, distance |-> 0,
     workouts |-> <<>>]

NoRecord == [rawData |-> <<>>, signature |-> <<>>, version |-> ""]

\* line 1511 draws the key; the store holds the day's samples
InitHk ==
    /\ signingKey \in SigningKeys
    /\ store \in Stores
    /\ pipe = IdlePipe
    /\ results = <<>>

\* line 1537: a call of fetchVerifiedHealthData(for: date) for the day of the
\* store, up to line 1539
PipeStart ==
    /\ pipe.pc = "idle"
    /\ Len(results) < MaxRuns
    /\ pipe' = [IdlePipe EXCEPT !.pc = "fetchSteps", !.date = 0]
    /\ UNCHANGED <<now, jsVars, fnVars, uiVars, signingKey, store, results>>

\* line 1539
PipeSteps ==
    /\ pipe.pc = "fetchSteps"
    /\ pipe' = [pipe EXCEPT !.pc = "fetchCalories", !.steps = fetchSteps]
    /\ UNCHANGED <<now, jsVars, fnVars, uiVars, signingKey, store, results>>

\* line 1540
PipeCalories ==
    /\ pipe.pc = "fetchCalories"
    /\ pipe' = [pipe EXCEPT !.pc = "fetchDistance", !.calories = fetchCalories]
    /\ UNCHANGED <<now, jsVars, fnVars, uiVars, signingKey, store, results>>

\* line 1541
PipeDistance ==
    /\ pipe.pc = "fetchDistance"
    /\ pipe' = [pipe EXCEPT !.pc = "fetchWorkouts", !.distance = fetchDistance]
    /\ UNCHANGED <<now, jsVars, fnVars, uiVars, signingKey, store, results>>

\* line 1542
PipeWorkouts ==
    /\ pipe.pc = "fetchWorkouts"
    /\ pipe' = [pipe EXCEPT !.pc = "fetchHeartRateReadings", !.workouts = fetchWorkouts]
    /\ UNCHANGED <<now, jsVars, fnVars, uiVars, signingKey, store, results>>

\* the error of a query discarded (try? with a default of 0 or []): the call
\* goes on to build and sign the data it has
PipeFetchFailureSwallowed ==
    /\ pipe.pc \in {"fetchSteps", "fetchCalories", "fetchDistance", "fetchWorkouts",
                    "fetchHeartRateReadings"}
    /\ LET rawData == [date |-> pipe.date, steps |-> pipe.steps,
                       calories |-> pipe.calories, distance |-> pipe.distance,
                       workouts |-> pipe.workouts, heartRateReadings |-> <<>>,
                       deviceInfo |-> getDeviceInfo, timestamp |-> now]
       IN  results' = Append(results,
                             [kind |-> "verified", reason |-> Valid, at |-> now,
                              data |-> <<rawData>>,
                              record |-> [rawData |-> rawData,
                                          signature |-> <<"HMAC-SHA256", signingKey, rawData>>,
                                          version |-> "1.0"]])
    /\ pipe' = IdlePipe
    /\ UNCHANGED <<now, jsVars, fnVars, uiVars, signingKey, store>>

\* lines 1539-1543: one of the five queries throws and the call ends with it
PipeFetchThrows ==
    /\ pipe.pc \in {"fetchSteps", "fetchCalories", "fetchDistance", "fetchWorkouts",
                    "fetchHeartRateReadings"}
    /\ results' = Append(results, [kind |-> "fetchThrew", reason |-> "query failed",
                                   at |-> now, data |-> <<>>, record |-> NoRecord])
    /\ pipe' = IdlePipe
    /\ UNCHANGED <<now, jsVars, fnVars, uiVars, signingKey, store>>

\* lines 1546-1555
RawHealthData(heartRateReadings) ==
    [date |-> pipe.date, steps |-> pipe.steps, calories |-> pipe.calories,
     distance |-> pipe.distance, workouts |-> pipe.workouts,
     heartRateReadings |-> heartRateReadings, deviceInfo |-> getDeviceInfo,
     timestamp |-> now]

\* the error of the validator discarded
VerdictIgnored(rawData) == Valid

\* line 1558: try validateDataConsistency(rawData)
Verdict(rawData) == validateDataConsistency(rawData, now)

\* lines 1543-1563: the last query returns; the data is built, validated
\* and, when valid, signed, with no suspension in between
PipeFinish ==
    /\ pipe.pc = "fetchHeartRateReadings"
    /\ LET rawData == RawHealthData(fetchHeartRateReadings)
           reason == Verdict(rawData)
       IN  IF reason = Valid
           THEN \E keys \in KeyOrders :
                    results' =
                        Append(results,
                               [kind |-> "verified", reason |-> Valid, at |-> now,
                                data |-> <<rawData>>,
                                record |-> createVerifiedData(rawData, keys)])
           ELSE results' =
                    Append(results,
                           [kind |-> "rejected", reason |-> reason, at |-> now,
                            data |-> <<rawData>>, record |-> NoRecord])
    /\ pipe' = IdlePipe
    /\ UNCHANGED <<now, jsVars, fnVars, uiVars, signingKey, store>>

fetchVerifiedHealthData ==
    \/ PipeStart
    \/ PipeSteps
    \/ PipeCalories
    \/ PipeDistance
    \/ PipeWorkouts
    \/ PipeFetchThrows
    \/ PipeFinish

---------------------------------------------------------------------------
Next ==
    \/ Tick
    \/ fetchHealthStatus
    \/ SyncCall
    \/ SyncResume

Spec == Init /\ [][Next]_vars

\* the syncs and the status fetches in every interleaving, the clock standing
NextSession ==
    \/ fetchHealthStatus
    \/ SyncCall
    \/ SyncResume

SpecSession == Init /\ [][NextSession]_vars

\* the timer of line 65 fires: the event loop runs every due continuation
FairSpec == Init /\ [][Next]_vars /\ WF_vars(SyncResume)

\* the device side alone: the browser side stays in its initial state
InitPipeline ==
    /\ InitJs
    /\ now = 0
    /\ InitHk
    /\ fnArg = <<>>
    /\ vResult = [reason |-> "pending", at |-> 0]
    /\ evals = <<>>
    /\ InitUi

NextPipeline ==
    \/ Tick
    \/ fetchVerifiedHealthData

SpecPipeline == InitPipeline /\ [][NextPipeline]_vars

---------------------------------------------------------------------------
(* validateDataConsistency on its own, webpage.jsx:1675-1722: the data is  *)
(* drawn at the thresholds of the five rules and validated at the time     *)
(* Date() reads when the call is made.                                     *)

ValidatorSteps == {0, 99, 100, 1000, 2000, 100000, 100001, 150000}

\* 750 and 2250 are 50% under and over the 1500 m expected for 2000 steps;
\* 75000, 75001 and 112500 lie inside the band of the three largest counts
ValidatorDistances == {0, 749, 750, 1500, 2250, 2251, 75000, 75001, 112500}

ValidatorCalories == {0, 50, 10000, 10001}

ValidatorWorkouts ==
    { <<>>, <<Workout(3600, 300, 0)>>, <<Workout(86400, 0, 1)>>,
      <<Workout(86401, 300, 0)>> }

Reading(b) == [bpm |-> b, timestamp |-> 0]

ValidatorHeartRates ==
    { <<>>, <<Reading(30), Reading(250)>>, <<Reading(29)>>, <<Reading(251)>> }

ValidatorInputs ==
    [date : {0}, steps : ValidatorSteps, calories : ValidatorCalories,
     distance : ValidatorDistances, workouts : ValidatorWorkouts,
     heartRateReadings : ValidatorHeartRates, deviceInfo : {getDeviceInfo},
     timestamp : {0}]

InitValidator ==
    /\ InitJs
    /\ now = 0
    /\ signingKey = "key-A"
    /\ store = EmptyStore
    /\ pipe = IdlePipe
    /\ results = <<>>
    /\ fnArg \in ValidatorInputs
    /\ vResult = [reason |-> "pending", at |-> 0]
    /\ evals = <<>>
    /\ InitUi

\* line 1558: validateDataConsistency(rawData), the reason it throws or Valid
Validate ==
    /\ vResult' = [reason |-> validateDataConsistency(fnArg, now), at |-> now]
    /\ UNCHANGED <<now, jsVars, hkVars, fnArg, evals, uiVars>>

NextValidator ==
    \/ Tick
    \/ Validate

SpecValidator == InitValidator /\ [][NextValidator]_vars

---------------------------------------------------------------------------
(* calculateHealthPoints called on its own, between the steps of the syncs *)
(* of healthApiIntegration.js:48-90 that change healthState and the scores *)

MaxEvals == 2

PointsInput(s, c, d, w) ==
    [steps |-> s, calories |-> c, distance |-> d, workouts |-> w,
     heartRate |-> Undefined]

\* the arguments of the calls: whole numbers as in lines 57-62, the distance
\* given in kilometres and in metres, workouts a count or the [] of line 33
PointsInputs ==
    { PointsInput(12000, 650, 8, 1), PointsInput(12000, 650, 8000, 1),
      PointsInput(7500, 420, 5, 0), PointsInput(7500, 420, 5000, 0),
      PointsInput(999, 99, 6, EmptyArray) }

InitPoints ==
    /\ InitJs
    /\ now = 0
    /\ signingKey = "key-A"
    /\ store = EmptyStore
    /\ pipe = IdlePipe
    /\ results = <<>>
    /\ fnArg = <<>>
    /\ vResult = [reason |-> "pending", at |-> 0]
    /\ evals = <<>>
    /\ InitUi

\* one call calculateHealthPoints(d): lines 92-110 assign the local points
\* only; the call is recorded with the stored score it ran beside
PointsCall ==
    /\ Len(evals) < MaxEvals
    /\ \E d \in PointsInputs :
           evals' = Append(evals, [arg |-> d,
                                   result |-> calculateHealthPoints(d),
                                   stored |-> healthState.points])
    /\ UNCHANGED <<now, jsVars, hkVars, fnArg, vResult, uiVars>>

NextPoints == SyncCall \/ SyncResume \/ PointsCall

SpecPoints == InitPoints /\ [][NextPoints]_vars

---------------------------------------------------------------------------
(* request, webpage.jsx:23-69.  req.i is the loop variable of line 44,      *)
(* req.attempts the number of fetch() calls made, req.seen the status of    *)
(* every response received, req.n the number of calls of request().         *)

MaxRequests == 2

\* the statuses a response can carry
Statuses == {200, 204, 404, 500, 503}

\* Response.ok
Ok(status) == status >= 200 /\ status <= 299

InitRequest ==
    /\ InitJs
    /\ now = 0
    /\ signingKey = "key-A"
    /\ store = EmptyStore
    /\ pipe = IdlePipe
    /\ results = <<>>
    /\ fnArg = <<>>
    /\ vResult = [reason |-> "pending", at |-> 0]
    /\ evals = <<>>
    /\ InitUi

\* lines 23-45: a call of request() up to its first fetch
RequestCall ==
    /\ req.pc \in {"idle", "returned", "threw"}
    /\ req.n < MaxRequests
    /\ req' = [pc |-> "fetching", i |-> 0, attempts |-> 1, seen |-> <<>>,
               n |-> req.n + 1]
    /\ UNCHANGED <<now, jsVars, hkVars, fnVars, form, auth>>

\* lines 45-49: a response that is ok ends the loop; line 52 is false, line
\* 58 returns {} for a 204, line 62 awaits the body otherwise
FetchRespondsOk(status) ==
    /\ req.pc = "fetching"
    /\ Ok(status)
    /\ req' = [req EXCEPT !.seen = Append(@, status),
                          !.pc = IF status = 204 THEN "returned" ELSE "body"]
    /\ UNCHANGED <<now, jsVars, hkVars, fnVars, form, auth>>

\* lines 45-50: a response that is not ok starts the timer of line 50
FetchRespondsNotOk(status) ==
    /\ req.pc = "fetching"
    /\ ~Ok(status)
    /\ req' = [req EXCEPT !.seen = Append(@, status), !.pc = "backoff"]
    /\ UNCHANGED <<now, jsVars, hkVars, fnVars, form, auth>>

\* line 45 rejects (no connection): lines 64-67 rethrow
FetchRejects ==
    /\ req.pc = "fetching"
    /\ req' = [req EXCEPT !.pc = "threw"]
    /\ UNCHANGED <<now, jsVars, hkVars, fnVars, form, auth>>

\* the loop of line 44 written i <= 3
BackoffFiresFourRounds ==
    /\ req.pc = "backoff"
    /\ req' = IF req.i + 1 <= 3
              THEN [req EXCEPT !.i = @ + 1, !.attempts = @ + 1, !.pc = "fetching"]
              ELSE [req EXCEPT !.i = @ + 1, !.pc = "errorBody"]
    /\ UNCHANGED <<now, jsVars, hkVars, fnVars, form, auth>>

\* line 50 resolves, then line 44: i++ and either the next fetch of line 45
\* or, with i = 3, line 52 is true and line 53 awaits the error body
BackoffFires ==
    /\ req.pc = "backoff"
    /\ req' = IF req.i + 1 < 3
              THEN [req EXCEPT !.i = @ + 1, !.attempts = @ + 1, !.pc = "fetching"]
              ELSE [req EXCEPT !.i = @ + 1, !.pc = "errorBody"]
    /\ UNCHANGED <<now, jsVars, hkVars, fnVars, form, auth>>

\* lines 53-54 and 64-67: the error body is read, or fails to parse; either
\* way the call throws
ErrorBodyRead ==
    /\ req.pc = "errorBody"
    /\ req' = [req EXCEPT !.pc = "threw"]
    /\ UNCHANGED <<now, jsVars, hkVars, fnVars, form, auth>>

\* line 62: the body is read and returned, or fails to parse and lines 64-67
\* rethrow
BodyRead ==
    /\ req.pc = "body"
    /\ \E pc \in {"returned", "threw"} : req' = [req EXCEPT !.pc = pc]
    /\ UNCHANGED <<now, jsVars, hkVars, fnVars, form, auth>>

FetchResponds ==
    \E status \in Statuses : FetchRespondsOk(status) \/ FetchRespondsNotOk(status)

NextRequest ==
    \/ RequestCall
    \/ FetchResponds
    \/ FetchRejects
    \/ BackoffFires
    \/ ErrorBodyRead
    \/ BodyRead

SpecRequest == InitRequest /\ [][NextRequest]_vars

\* every fetch is answered or rejected, every timer of line 50 fires and
\* every body read ends
FairSpecRequest ==
    /\ InitRequest
    /\ [][NextRequest]_vars
    /\ WF_vars(FetchResponds \/ FetchRejects)
    /\ WF_vars(BackoffFires)
    /\ WF_vars(ErrorBodyRead)
    /\ WF_vars(BodyRead)

---------------------------------------------------------------------------
(* HabitLogForm, webpage.jsx:420-496.  Numbers are given in tenths, the     *)
(* step of the inputs.  form.sent holds the payload of the last call of     *)
(* api.habits.log, form.nSubmit the number of submits.                      *)

MaxSubmits == 2

\* what the user can leave in an input
Texts == {"", "abc", "-0.5", "0", "0.1", "8"}

\* parseFloat(value), line 461
parseFloat(text) ==
    CASE text = "-0.5" -> Num(-5)
      [] text = "0" -> Num(0)
      [] text = "0.1" -> Num(1)
      [] text = "8" -> Num(80)
      [] OTHER -> NaN

\* v > 0 in JavaScript: false for NaN
GreaterThanZero(v) == v.t = "number" /\ v.n > 0

\* the filter of line 472 written v >= 0
KeepsEntryFromZero(v) == v.t # "null" /\ v.t = "number" /\ v.n >= 0

\* the filter of line 472: v !== null && v > 0
KeepsEntry(v) == v.t # "null" /\ GreaterThanZero(v)

\* lines 471-473: Object.entries(formData) are the keys that are set;
\* Object.fromEntries keeps each value as it is
cleanedData(formData) ==
    [k \in { key \in HabitKeys : formData[key] # Absent /\ KeepsEntry(formData[key]) }
        |-> formData[k]]

InitHabitLog ==
    /\ InitJs
    /\ now = 0
    /\ signingKey = "key-A"
    /\ store = EmptyStore
    /\ pipe = IdlePipe
    /\ results = <<>>
    /\ fnArg = <<>>
    /\ vResult = [reason |-> "pending", at |-> 0]
    /\ evals = <<>>
    /\ InitUi

\* handleChange, lines 458-463
handleChange ==
    /\ \E name \in HabitKeys, value \in Texts :
           LET numericValue == IF value = "" THEN JsNull ELSE parseFloat(value)
           IN  form' = [form EXCEPT !.formData[name] = numericValue]
    /\ UNCHANGED <<now, jsVars, hkVars, fnVars, req, auth>>

\* handleSubmit, lines 465-476: up to the call of api.habits.log
handleSubmit ==
    /\ form.nSubmit < MaxSubmits
    /\ form' = [form EXCEPT !.sent = <<cleanedData(form.formData)>>,
                            !.nSubmit = @ + 1]
    /\ UNCHANGED <<now, jsVars, hkVars, fnVars, req, auth>>

NextHabitLog == handleChange \/ handleSubmit

SpecHabitLog == InitHabitLog /\ [][NextHabitLog]_vars

---------------------------------------------------------------------------
(* useAuthProvider, webpage.jsx:101-175.  auth.token is the 'token' item of *)
(* localStorage, auth.calls the calls of login, register, fetchUser and     *)
(* refreshUser made so far, each with the await it is suspended at and what *)
(* it returned.  auth.loggedOut records that logout() ran and that no       *)
(* request of login or register has been accepted since.                    *)

MaxAuthCalls == 2

NewAuthCall(kind, pc) == [kind |-> kind, pc |-> pc, ret |-> "pending"]

\* localStorage holds a token of an earlier visit, or none
InitAuthProvider ==
    /\ InitJs
    /\ now = 0
    /\ signingKey = "key-A"
    /\ store = EmptyStore
    /\ pipe = IdlePipe
    /\ results = <<>>
    /\ fnArg = <<>>
    /\ vResult = [reason |-> "pending", at |-> 0]
    /\ evals = <<>>
    /\ req = IdleRequest
    /\ form = InitForm
    /\ \E token \in {"none", "token"} : auth = [InitAuth EXCEPT !.token = token]

\* what login and register return after fetchUser, lines 134 and 147
ReturnedAfterFetchUser(kind) ==
    IF kind \in {"login", "register"} THEN "true" ELSE "undefined"

\* the effect of lines 119-126, run once after the first render
Mount ==
    /\ ~auth.mounted
    /\ auth' = IF auth.token # "none"
               THEN [auth EXCEPT !.mounted = TRUE,
                                 !.calls = Append(@, NewAuthCall("fetchUser", "getMe"))]
               ELSE [auth EXCEPT !.mounted = TRUE, !.loading = FALSE]
    /\ UNCHANGED <<now, jsVars, hkVars, fnVars, req, form>>

\* login, lines 128-131, and register, lines 141-144: up to the await of the
\* request
LoginCall ==
    /\ auth.mounted
    /\ Len(auth.calls) < MaxAuthCalls
    /\ \E kind \in {"login", "register"} :
           auth' = [auth EXCEPT !.error = "null",
                                !.calls = Append(@, NewAuthCall(kind, "credentials"))]
    /\ UNCHANGED <<now, jsVars, hkVars, fnVars, req, form>>

\* refreshUser, lines 159-161, up to the await of line 109
RefreshUserCall ==
    /\ auth.mounted
    /\ Len(auth.calls) < MaxAuthCalls
    /\ auth' = [auth EXCEPT !.calls = Append(@, NewAuthCall("refreshUser", "getMe"))]
    /\ UNCHANGED <<now, jsVars, hkVars, fnVars, req, form>>

\* lines 131-133 and 144-146: the request resolves, the token is stored and
\* fetchUser runs up to the await of line 109
LoginAccepted(i) ==
    /\ auth.calls[i].pc = "credentials"
    /\ auth' = [auth EXCEPT !.token = "token",
                            !.loggedOut = FALSE,
                            !.calls[i].pc = "getMe"]
    /\ UNCHANGED <<now, jsVars, hkVars, fnVars, req, form>>

\* lines 135-138 and 148-151: the request throws
LoginRefused(i) ==
    /\ auth.calls[i].pc = "credentials"
    /\ auth' = [auth EXCEPT !.error = "failed",
                            !.calls[i].pc = "done",
                            !.calls[i].ret = "false"]
    /\ UNCHANGED <<now, jsVars, hkVars, fnVars, req, form>>

\* lines 109-110 and 115: api.auth.getMe() resolves
GetMeResolves(i) ==
    /\ auth.calls[i].pc = "getMe"
    /\ auth' = [auth EXCEPT !.user = "user",
                            !.loading = FALSE,
                            !.calls[i].pc = "done",
                            !.calls[i].ret = ReturnedAfterFetchUser(auth.calls[i].kind)]
    /\ UNCHANGED <<now, jsVars, hkVars, fnVars, req, form>>

\* lines 111-115: api.auth.getMe() throws; fetchUser catches the error and
\* does not throw itself
GetMeThrows(i) ==
    /\ auth.calls[i].pc = "getMe"
    /\ auth' = [auth EXCEPT !.token = "none",
                            !.user = "null",
                            !.loading = FALSE,
                            !.calls[i].pc = "done",
                            !.calls[i].ret = ReturnedAfterFetchUser(auth.calls[i].kind)]
    /\ UNCHANGED <<now, jsVars, hkVars, fnVars, req, form>>

\* logout, lines 154-157
logout ==
    /\ auth.mounted
    /\ auth' = [auth EXCEPT !.token = "none", !.user = "null", !.loggedOut = TRUE]
    /\ UNCHANGED <<now, jsVars, hkVars, fnVars, req, form>>

\* a suspended call goes on
AuthResume ==
    \E i \in DOMAIN auth.calls :
        \/ LoginAccepted(i)
        \/ LoginRefused(i)
        \/ GetMeResolves(i)
        \/ GetMeThrows(i)

NextAuthProvider ==
    \/ Mount
    \/ LoginCall
    \/ RefreshUserCall
    \/ AuthResume
    \/ logout

SpecAuthProvider == InitAuthProvider /\ [][NextAuthProvider]_vars

---------------------------------------------------------------------------
(* Properties of the sync coordinator *)

Calls == 1..MaxSyncs

\* the syncHealthData invocations between line 51 and their finally block
InFlight == {i \in Calls : syncs[i].pc = "awaiting"}

\* call i runs its continuation in this step and ends as pc
Ends(i, pc) == syncs[i].pc = "awaiting" /\ syncs'[i].pc = pc

\* the session state of the spec: Idle, Syncing, Synced or Failed
SessionState ==
    IF healthState.isSyncing THEN "Syncing"
    ELSE CASE healthState.status = "not-synced" -> "Idle"
           [] healthState.status = "synced" -> "Synced"
           [] healthState.status = "error" -> "Failed"

\* C1: in every reachable state at most one syncHealthData invocation is
\* between setting isSyncing and its completion.
C1_AtMostOneInFlight == Cardinality(InFlight) <= 1

\* a request arrived while a sync was in flight and was turned away
C1_Witness ==
    \E i, j \in Calls : syncs[i].pc = "awaiting" /\ syncs[j].pc = "rejected"

\* C2: isSyncing is true only while a sync is in flight, and whenever it is
\* true it eventually becomes false again, whether the sync succeeds or fails.
C2_SyncingEventuallyLeaves ==
    /\ [](healthState.isSyncing => InFlight # {})
    /\ (healthState.isSyncing ~> ~healthState.isSyncing)

\* a sync failed and the session is unlocked again
C2_Witness ==
    \E i \in Calls : syncs[i].pc = "failed" /\ ~healthState.isSyncing

\* C3: a sync that ends with status 'error' leaves state.matchup.userScore and
\* state.weekPoints as they were before the call.
C3_FailedSyncAddsNoPoints ==
    [][\A i \in Calls :
          (Ends(i, "failed") /\ healthState'.status = "error") =>
              /\ userScore' = userScore
              /\ weekPoints' = weekPoints]_vars

\* C4: a request made while a sync is in flight returns the typed result
\* SyncInProgress to its caller.
C4_RejectedReturnsSyncInProgress ==
    \A i \in Calls : syncs[i].pc = "rejected" => syncs[i].ret = "SyncInProgress"

\* C5: a request rejected while a sync is pending changes neither healthState
\* nor the two scores nor the pending sync, and the pending sync then ends
\* with the data, points, status and timestamp of its own run.
C5_RejectedRequestChangesNothing ==
    [][/\ (\E j \in Calls : syncs[j].pc = "new" /\ syncs'[j].pc = "rejected") =>
              /\ healthState' = healthState
              /\ userScore' = userScore
              /\ weekPoints' = weekPoints
              /\ \A i \in InFlight : syncs'[i] = syncs[i]
       /\ \A i \in Calls :
              Ends(i, "ok") =>
                  /\ healthState'.data = syncs[i].mock
                  /\ healthState'.points = calculateHealthPoints(syncs[i].mock)
                  /\ healthState'.status = "synced"
                  /\ healthState'.lastSync = now
                  /\ userScore' = userScore + calculateHealthPoints(syncs[i].mock)
                  /\ weekPoints' = weekPoints + calculateHealthPoints(syncs[i].mock)]_vars

\* a second request was rejected while the first was pending, and the first
\* then succeeded
C5_Witness ==
    \E i, j \in Calls : i < j /\ syncs[i].pc = "ok" /\ syncs[j].pc = "rejected"

\* C7 as stated: the session state changes only along
\* Idle -> Syncing -> Synced or Failed -> Syncing.
C7_OnlyAlongTheMachine ==
    [][SessionState' # SessionState =>
          <<SessionState, SessionState'>> \in
              { <<"Idle", "Syncing">>, <<"Syncing", "Synced">>,
                <<"Syncing", "Failed">>, <<"Synced", "Syncing">>,
                <<"Failed", "Syncing">> }]_vars

\* C7 amended: Syncing is entered only by a request accepted while no sync
\* runs, is left only to Synced (the sync succeeded) or Failed (it failed),
\* a request made outside Syncing is always accepted, and outside Syncing the
\* only other thing that moves the state is a fetchHealthStatus completion.
C7_SyncStepsFollowTheMachine ==
    [][/\ (~healthState.isSyncing /\ healthState'.isSyncing) =>
              /\ nSync' = nSync + 1
              /\ InFlight = {}
              /\ syncs'[nSync'].pc = "awaiting"
       /\ (healthState.isSyncing /\ ~healthState'.isSyncing) =>
              \E i \in InFlight :
                  \/ Ends(i, "ok") /\ SessionState' = "Synced"
                  \/ Ends(i, "failed") /\ SessionState' = "Failed"
       /\ (nSync' = nSync + 1 /\ SessionState # "Syncing") =>
              SessionState' = "Syncing"
       /\ (SessionState' # SessionState /\ healthState'.isSyncing = healthState.isSyncing) =>
              /\ pendingFetches' = pendingFetches - 1
              /\ SessionState' \in {"Synced", "Failed"}]_vars

\* a sync ended in Synced or Failed and the next request entered Syncing
C7_Witness ==
    \E i, j \in Calls :
        i < j /\ syncs[i].pc \in {"ok", "failed"} /\ syncs[j].pc = "awaiting"

\* C8: a failing sync ends with status 'error', returns a typed error to its
\* caller and starts no further pipeline run.
C8_FailureSurfacedToCaller ==
    [][\A i \in Calls :
          Ends(i, "failed") =>
              /\ healthState'.status = "error"
              /\ syncs'[i].ret # Undefined
              /\ \A j \in Calls \ {i} : syncs'[j] = syncs[j]]_vars

\* C9: every value written to healthState.lastSync is a date not earlier than
\* the one it replaces, and every successful sync writes the current time.
C9_LastSyncMonotonic ==
    [][/\ healthState'.lastSync # healthState.lastSync =>
              /\ healthState'.lastSync # Null
              /\ healthState.lastSync # Null =>
                     healthState'.lastSync >= healthState.lastSync
       /\ \A i \in Calls : Ends(i, "ok") => healthState'.lastSync = now]_vars

\* a sync and a status fetch have both written lastSync, the later after the
\* clock advanced
C9_Witness ==
    /\ \E i \in Calls : syncs[i].pc = "ok"
    /\ nFetch > pendingFetches
    /\ healthState.status = "synced"
    /\ healthState.lastSync > 0

---------------------------------------------------------------------------
(* Properties of the device-side pipeline *)

Runs == DOMAIN results

\* the runs that reached the validator
Validated == {k \in Runs : results[k].kind \in {"verified", "rejected"}}

\* the five rules of the ConsistencyValidator, each on its own; t is now
Rule1Violated(d) ==
    d.steps > 1000 /\ Abs(4 * d.distance - 3 * d.steps) * 2 > 3 * d.steps

Rule2Violated(d) ==
    d.calories > 0 /\ SumWorkoutCalories(d.workouts) = 0 /\ d.steps < 100

Rule3Violated(d, t) ==
    \E k \in DOMAIN d.workouts :
        d.workouts[k].duration > 86400 \/ d.workouts[k].startDate > t

Rule4Violated(d) ==
    \E k \in DOMAIN d.heartRateReadings :
        d.heartRateReadings[k].bpm < 30 \/ d.heartRateReadings[k].bpm > 250

Rule5Violated(d) == d.steps > 100000 \/ d.calories > 10000

ViolatedRules(d, t) ==
    {r \in 1..5 : \/ r = 1 /\ Rule1Violated(d)
                  \/ r = 2 /\ Rule2Violated(d)
                  \/ r = 3 /\ Rule3Violated(d, t)
                  \/ r = 4 /\ Rule4Violated(d)
                  \/ r = 5 /\ Rule5Violated(d)}

\* the first violated rule in the order 1..5, or 0 when none is violated
FirstViolatedRule(d, t) ==
    IF ViolatedRules(d, t) = {} THEN 0
    ELSE CHOOSE r \in ViolatedRules(d, t) : \A q \in ViolatedRules(d, t) : r <= q

\* the rule a reason belongs to
RuleOfReason(reason) ==
    CASE reason = Valid -> 0
      [] reason = "Steps and distance don't correlate" -> 1
      [] reason = "Calories burned without activity" -> 2
      [] reason \in {"Workout duration exceeds 24 hours", "Workout in the future"} -> 3
      [] reason = "Heart rate outside realistic range" -> 4
      [] reason \in {"Unrealistic step count", "Unrealistic calorie burn"} -> 5

\* two RawHealthData with the same health fields
SameHealthData(a, b) ==
    /\ a.steps = b.steps /\ a.calories = b.calories /\ a.distance = b.distance
    /\ a.workouts = b.workouts /\ a.heartRateReadings = b.heartRateReadings

\* C6: a VerifiedHealthData exists only for the RawHealthData that passed
\* validateDataConsistency in the same run: the data a record signs violates
\* none of the five rules, when it was signed and ever after, and a run that
\* was rejected or whose query failed leaves no record.
C6_SignerNeverSignsRejectedData ==
    \A k \in Runs :
        IF results[k].kind = "verified"
        THEN /\ results[k].record.rawData = results[k].data[1]
             /\ ViolatedRules(results[k].record.rawData, results[k].at) = {}
             /\ ViolatedRules(results[k].record.rawData, now) = {}
        ELSE results[k].record = NoRecord

\* the same store was rejected in one run and signed in another
C6_Witness ==
    \E j, k \in Runs : results[j].kind = "rejected" /\ results[k].kind = "verified"

\* the reason of every validation is that of the first violated rule
ReasonIsOfFirstViolatedRule ==
    \A k \in Validated :
        RuleOfReason(results[k].reason) = FirstViolatedRule(results[k].data[1], results[k].at)

\* C10 as stated: the validator reports the reason of the first violated rule
\* in the order 1..5, and validating the same data again yields the same
\* reason.
C10_SameReasonOnReevaluation ==
    /\ ReasonIsOfFirstViolatedRule
    /\ \A j, k \in Validated :
           (j < k /\ SameHealthData(results[j].data[1], results[k].data[1])) =>
               results[k].reason = results[j].reason

\* C10 amended: the validator reports the reason of the first violated rule
\* in the order 1..5, and validating the same data again later yields the
\* same reason unless the earlier reason was 'Workout in the future'.
C10_FirstViolatedRuleReported ==
    /\ ReasonIsOfFirstViolatedRule
    /\ \A j, k \in Validated :
           (j < k /\ SameHealthData(results[j].data[1], results[k].data[1])) =>
               \/ results[k].reason = results[j].reason
               \/ results[j].reason = "Workout in the future"

\* data that violates two rules or more was validated twice
C10_Witness ==
    \E j, k \in Validated :
        /\ j < k
        /\ Cardinality(ViolatedRules(results[j].data[1], results[j].at)) >= 2
        /\ Cardinality(ViolatedRules(results[k].data[1], results[k].at)) >= 2

---------------------------------------------------------------------------
(* Properties of validateDataConsistency on its own *)

\* the validator has decided on fnArg
Decided == vResult.reason # "pending"

CorrelationReason == "Steps and distance don't correlate"

CalorieReason == "Calories burned without activity"

\* distance is within 50% of 0.75 * steps, the ends of the band included
InBand(d) == Abs(4 * d.distance - 3 * d.steps) * 2 <= 3 * d.steps

\* C11 as stated: for steps > 1000 the validator accepts the data when
\* distance is within 50% of 0.75 * steps and rejects it with the correlation
\* reason otherwise; for steps <= 1000 the correlation rule is not evaluated.
C11_InBandIsAccepted ==
    Decided =>
        /\ (fnArg.steps > 1000 /\ InBand(fnArg)) => vResult.reason = Valid
        /\ (fnArg.steps > 1000 /\ ~InBand(fnArg)) => vResult.reason = CorrelationReason
        /\ fnArg.steps <= 1000 => vResult.reason # CorrelationReason

\* C11 amended: for steps > 1000 and distance within the band the correlation
\* rule passes, and the data is accepted exactly when rules 3, 4 and 5 pass
\* too; outside the band it is rejected with the correlation reason; for
\* steps <= 1000 the correlation rule is not evaluated.
C11_CorrelationRule ==
    Decided =>
        /\ (fnArg.steps > 1000 /\ InBand(fnArg)) =>
               /\ vResult.reason # CorrelationReason
               /\ vResult.reason = Valid <=>
                      ViolatedRules(fnArg, vResult.at) \cap {3, 4, 5} = {}
        /\ (fnArg.steps > 1000 /\ ~InBand(fnArg)) => vResult.reason = CorrelationReason
        /\ fnArg.steps <= 1000 => vResult.reason # CorrelationReason

\* 2000 steps with 750 m, exactly 50% under the expected 1500 m, were accepted
C11_Witness ==
    /\ Decided
    /\ fnArg.steps = 2000 /\ fnArg.distance = 750
    /\ vResult.reason = Valid

\* C12: data with steps > 100000 or calories > 10000 is rejected whatever the
\* other fields hold.
C12_CapsAlwaysReject ==
    Decided =>
        ((fnArg.steps > 100000 \/ fnArg.calories > 10000) => vResult.reason # Valid)

\* 150000 steps with the matching 112500 m got as far as the caps and were
\* rejected there
C12_Witness ==
    /\ Decided
    /\ fnArg.steps = 150000 /\ fnArg.distance = 112500
    /\ vResult.reason = "Unrealistic step count"

\* C13: data with calories > 0, no workout calories and steps < 100 is
\* rejected with the calorie reason, and data where one of the three
\* conditions is false is never rejected with that reason.
C13_CaloriePlausibility ==
    Decided =>
        (vResult.reason = CalorieReason <=>
            /\ fnArg.calories > 0
            /\ SumWorkoutCalories(fnArg.workouts) = 0
            /\ fnArg.steps < 100)

\* calories = 50, steps = 0 and no workouts were rejected by rule 2
C13_Witness ==
    /\ Decided
    /\ fnArg.calories = 50 /\ fnArg.steps = 0 /\ fnArg.workouts = <<>>
    /\ vResult.reason = CalorieReason

\* C14 as stated: data with steps = 0 and calories = 0 is always accepted.
C14_ZeroDataAlwaysValid ==
    Decided =>
        ((fnArg.steps = 0 /\ fnArg.calories = 0) => vResult.reason = Valid)

\* C14 amended: data with steps = 0 and calories = 0 is never rejected by
\* rules 1, 2 and 5, and is accepted exactly when its workouts pass rule 3 and
\* its heart-rate readings pass rule 4.
C14_ZeroDataPassesRules125 ==
    Decided =>
        ((fnArg.steps = 0 /\ fnArg.calories = 0) =>
            /\ RuleOfReason(vResult.reason) \in {0, 3, 4}
            /\ vResult.reason = Valid <=>
                   (~Rule3Violated(fnArg, vResult.at) /\ ~Rule4Violated(fnArg)))

\* steps = 0 and calories = 0 were accepted with a distance of 1500 m
C14_Witness ==
    /\ Decided
    /\ fnArg.steps = 0 /\ fnArg.calories = 0 /\ fnArg.distance = 1500
    /\ vResult.reason = Valid

\* C15: the data is rejected if a workout lasts more than 86400 s or starts
\* strictly after now; a workout of exactly 86400 s that starts now is not
\* rejected by this rule, and neither is an empty workout sequence.
C15_WorkoutSanity ==
    Decided =>
        /\ Rule3Violated(fnArg, vResult.at) => vResult.reason # Valid
        /\ ~Rule3Violated(fnArg, vResult.at) => RuleOfReason(vResult.reason) # 3
        /\ (RuleOfReason(vResult.reason) = 3) =>
               \E k \in DOMAIN fnArg.workouts :
                   \/ /\ fnArg.workouts[k].duration > 86400
                      /\ vResult.reason = "Workout duration exceeds 24 hours"
                   \/ /\ fnArg.workouts[k].startDate > vResult.at
                      /\ vResult.reason = "Workout in the future"

\* a workout of exactly 86400 s that starts at the time of the call passed
C15_Witness ==
    /\ Decided
    /\ fnArg.workouts = <<Workout(86400, 0, 1)>>
    /\ vResult.at = 1
    /\ vResult.reason = Valid

\* C16: the data is rejected if a heart-rate reading is under 30 or over 250
\* bpm; readings of exactly 30 and 250 are not rejected by this rule, and
\* neither is an empty reading sequence.
C16_HeartRatePlausibility ==
    Decided =>
        /\ Rule4Violated(fnArg) => vResult.reason # Valid
        /\ ~Rule4Violated(fnArg) => RuleOfReason(vResult.reason) # 4

\* readings of exactly 30 and 250 bpm passed
C16_Witness ==
    /\ Decided
    /\ fnArg.heartRateReadings = <<Reading(30), Reading(250)>>
    /\ vResult.reason = Valid

---------------------------------------------------------------------------
(* Properties of calculateHealthPoints *)

\* workouts as a count: the [] that fetchHealthStatus stores counts as none
WorkoutCount(w) == IF w = EmptyArray THEN 0 ELSE w

\* ten times the total of the formula with distanceKm = distanceMeters / 1000,
\* the distance bonus (m - 5000) * 2 / 1000 rounded to a tenth
TenthsWithDistanceInMeters(d) ==
    ((d.steps \div 1000) + (d.calories \div 100) + WorkoutCount(d.workouts) * 5) * 10
        + (IF d.distance > 5000 THEN (2 * (d.distance - 5000) + 50) \div 100 ELSE 0)

\* the total of the formula with distanceKm = the distance field itself
TotalWithDistanceInKm(d) ==
    (d.steps \div 1000) + (d.calories \div 100) + WorkoutCount(d.workouts) * 5
        + (IF d.distance > 5 THEN (d.distance - 5) * 2 ELSE 0)

\* C17 as stated: every total equals the formula with the distance bonus taken
\* on distanceMeters / 1000; 12000 steps, 650 calories, 8000 m and 1 workout
\* give 29.0 and 7500 steps, 420 calories, 5000 m and no workout give 11.0.
C17_TotalWithMetersConverted ==
    \A k \in DOMAIN evals :
        /\ evals[k].result * 10 = TenthsWithDistanceInMeters(evals[k].arg)
        /\ evals[k].arg = PointsInput(12000, 650, 8000, 1) => evals[k].result = 29
        /\ evals[k].arg = PointsInput(7500, 420, 5000, 0) => evals[k].result = 11

\* C17 amended: every total equals the formula with the distance bonus taken
\* on the distance field as it is, in kilometres; 12000 steps, 650 calories,
\* 8 km and 1 workout give 29 and 7500 steps, 420 calories, 5 km and no
\* workout give 11; 8000 in the distance field gives 16013.
C17_TotalWithDistanceInKm ==
    \A k \in DOMAIN evals :
        /\ evals[k].result = TotalWithDistanceInKm(evals[k].arg)
        /\ evals[k].arg = PointsInput(12000, 650, 8, 1) => evals[k].result = 29
        /\ evals[k].arg = PointsInput(7500, 420, 5, 0) => evals[k].result = 11
        /\ evals[k].arg = PointsInput(12000, 650, 8000, 1) => evals[k].result = 16013

\* the 8 km scenario and the 5 km scenario were both computed
C17_Witness ==
    /\ \E k \in DOMAIN evals :
           evals[k].arg = PointsInput(12000, 650, 8, 1) /\ evals[k].result = 29
    /\ \E k \in DOMAIN evals :
           evals[k].arg = PointsInput(7500, 420, 5, 0) /\ evals[k].result = 11

\* calls on the same argument returned the same total
SameArgSameResult ==
    \A j, k \in DOMAIN evals :
        evals[j].arg = evals[k].arg => evals[j].result = evals[k].result

---------------------------------------------------------------------------
(* The stored score and its source data *)

\* C19: whenever healthState.status is 'synced' and no sync is running,
\* healthState.points equals calculateHealthPoints(healthState.data).
C19_PointsFollowData ==
    (healthState.status = "synced" /\ ~healthState.isSyncing) =>
        healthState.points = calculateHealthPoints(healthState.data)

---------------------------------------------------------------------------
(* Properties of the signature *)

\* the records that differ from rawData in the value of one field
Tampered(rawData) ==
    { [rawData EXCEPT !.steps = @ + 1], [rawData EXCEPT !.calories = @ + 1],
      [rawData EXCEPT !.distance = @ + 1], [rawData EXCEPT !.timestamp = @ + 1],
      [rawData EXCEPT !.heartRateReadings = Append(@, Reading(60))] }

\* C20: for every record that createVerifiedData produced, recomputing the MAC
\* over the serialization of its unmodified rawData with the same key gives
\* its signature, and recomputing it over a changed rawData does not.
C20_SignThenVerify ==
    \A k \in DOMAIN results :
        results[k].kind = "verified" =>
            \A keys \in KeyOrders :
                /\ verifyRecord(results[k].record, signingKey, keys)
                /\ \A t \in Tampered(results[k].record.rawData) :
                       ~verifyRecord([results[k].record EXCEPT !.rawData = t],
                                     signingKey, keys)

---------------------------------------------------------------------------
(* Properties of the aggregation *)

\* the runs that built a RawHealthData
Built == { k \in Runs : results[k].data # <<>> }

RECURSIVE PlainSum(_, _)
\* the sum of the values of the first n samples of a stream as the store
\* holds it
PlainSum(stream, n) ==
    IF n = 0 THEN 0 ELSE stream[n].value + PlainSum(stream, n - 1)

\* C21: each of the steps, calories and distance aggregates is the plain sum
\* of the values of all the day's samples of that metric, each counted once,
\* and the aggregate of an empty stream is 0.
C21_AggregatesArePlainSums ==
    \A k \in Built :
        LET d == results[k].data[1]
        IN  /\ d.steps = PlainSum(store.stepCount, Len(store.stepCount))
            /\ d.calories =
                   PlainSum(store.activeEnergyBurned, Len(store.activeEnergyBurned))
            /\ d.distance =
                   PlainSum(store.distanceWalkingRunning,
                            Len(store.distanceWalkingRunning))
            /\ store.stepCount = <<>> => d.steps = 0
            /\ store.activeEnergyBurned = <<>> => d.calories = 0
            /\ store.distanceWalkingRunning = <<>> => d.distance = 0

\* two step samples and two distance samples were summed and an empty
\* calorie stream gave 0, in a run that ended with a record
C21_Witness ==
    \E k \in Built :
        /\ results[k].kind = "verified"
        /\ Len(store.stepCount) = 2 /\ results[k].data[1].steps = 2000
        /\ Len(store.distanceWalkingRunning) = 2 /\ results[k].data[1].distance = 1500
        /\ store.activeEnergyBurned = <<>> /\ results[k].data[1].calories = 0

\* seq is ordered by the field f, oldest first
Ascending(seq, f) ==
    \A i, j \in DOMAIN seq : i < j => seq[i][f] <= seq[j][f]

\* seq is ordered by the field f, newest first
Descending(seq, f) ==
    \A i, j \in DOMAIN seq : i < j => seq[i][f] >= seq[j][f]

\* the elements of seq with the number of times each occurs
BagOf(seq) ==
    [x \in { seq[i] : i \in DOMAIN seq } |->
        Cardinality({ i \in DOMAIN seq : seq[i] = x })]

\* the readings of the heart-rate samples of the store
StoredReadings ==
    [i \in DOMAIN store.heartRate |->
        [bpm |-> store.heartRate[i].value, timestamp |-> store.heartRate[i].startDate]]

\* every workout and every heart-rate sample of the store is in d, once each
CarriesEverySample(d) ==
    /\ BagOf(d.workouts) = BagOf(store.workouts)
    /\ BagOf(d.heartRateReadings) = BagOf(StoredReadings)

\* C22 as stated: in every RawHealthData the pipeline builds, the workouts and
\* the heart-rate readings are both in ascending order of time and hold every
\* fetched sample unaggregated.
C22_BothSequencesAscending ==
    \A k \in Built :
        /\ Ascending(results[k].data[1].workouts, "startDate")
        /\ Ascending(results[k].data[1].heartRateReadings, "timestamp")
        /\ CarriesEverySample(results[k].data[1])

\* C22 amended: the heart-rate readings are in ascending order of timestamp,
\* the workouts are in descending order of start date (newest first), and
\* both hold every fetched sample unaggregated.
C22_ReadingsAscendingWorkoutsDescending ==
    \A k \in Built :
        /\ Descending(results[k].data[1].workouts, "startDate")
        /\ Ascending(results[k].data[1].heartRateReadings, "timestamp")
        /\ CarriesEverySample(results[k].data[1])

\* a RawHealthData was built from two workouts and two heart-rate samples
\* that the store holds in the other order
C22_Witness ==
    \E k \in Built :
        /\ Len(results[k].data[1].workouts) = 2
        /\ results[k].data[1].workouts # store.workouts
        /\ Len(results[k].data[1].heartRateReadings) = 2
        /\ results[k].data[1].heartRateReadings # StoredReadings

---------------------------------------------------------------------------
(* Properties of the order of the pipeline's stages *)

\* the five fetches of lines 1539-1543 in the order the call awaits them
FetchOrder ==
    <<"fetchSteps", "fetchCalories", "fetchDistance", "fetchWorkouts",
      "fetchHeartRateReadings">>

\* the fetches of the running call that have returned
FetchesDone ==
    { FetchOrder[i] : i \in { j \in 1..5 : \E l \in (j + 1)..5 : pipe.pc = FetchOrder[l] } }

---------------------------------------------------------------------------
(* Properties of the scores and of fetchHealthStatus *)

\* C24: a successful sync raises state.matchup.userScore and state.weekPoints
\* by the points computed for it, nothing but a successful sync changes either
\* score, and userScore - weekPoints stays as it is.
C24_OnlySuccessfulSyncsScore ==
    [][/\ \A i \in Calls :
              Ends(i, "ok") =>
                  /\ userScore' = userScore + healthState'.points
                  /\ weekPoints' = weekPoints + healthState'.points
       /\ (userScore' # userScore \/ weekPoints' # weekPoints) =>
              \E i \in Calls : Ends(i, "ok")
       /\ userScore' - weekPoints' = userScore - weekPoints]_vars

\* C27: whenever healthState.status is 'synced', healthState.lastSync is not
\* null.
C27_SyncedHasLastSync ==
    healthState.status = "synced" => healthState.lastSync # Null

\* the status became 'synced' by a status response alone, before any sync
C27_Witness ==
    /\ nSync = 0
    /\ healthState.status = "synced"
    /\ healthState.lastSync # Null

\* C30: a step of fetchHealthStatus changes none of healthState.isSyncing,
\* healthState.points, state.matchup.userScore and state.weekPoints, and the
\* step that receives a response with hasData false changes nothing of
\* healthState.
C30_FetchStatusFrame ==
    [][/\ pendingFetches' # pendingFetches =>
              /\ healthState'.isSyncing = healthState.isSyncing
              /\ healthState'.points = healthState.points
              /\ userScore' = userScore
              /\ weekPoints' = weekPoints
       /\ FetchStatusNoData =>
              /\ healthState'.data = healthState.data
              /\ healthState'.status = healthState.status
              /\ healthState'.lastSync = healthState.lastSync]_vars

\* a status response with data arrived while the first sync was in flight
C30_Witness ==
    /\ nSync = 1
    /\ InFlight # {}
    /\ healthState.isSyncing
    /\ healthState.status = "synced"
    /\ healthState.points = 0
    /\ nFetch > 0

---------------------------------------------------------------------------
(* Properties of request *)

\* the call of request() has not ended
RequestRunning == req.pc \in {"fetching", "backoff", "errorBody", "body"}

\* the call of request() returned or threw
RequestEnded == req.pc \in {"returned", "threw"}

\* at most 3 attempts, none after a response that is ok, and a call that saw
\* 3 responses that are not ok has thrown when it ends
BoundedRetries ==
    /\ req.attempts <= 3
    /\ Len(req.seen) <= req.attempts
    /\ \A k \in 1..(Len(req.seen) - 1) : ~Ok(req.seen[k])
    /\ (req.attempts > Len(req.seen) /\ Len(req.seen) > 0) => ~Ok(req.seen[Len(req.seen)])
    /\ (RequestEnded /\ Len(req.seen) = 3 /\ \A k \in 1..3 : ~Ok(req.seen[k])) =>
           req.pc = "threw"
    /\ req.pc = "returned" => (req.seen # <<>> /\ Ok(req.seen[Len(req.seen)]))

\* C25: a call of request() makes at most 3 fetch attempts and none after the
\* first response that is ok, throws when all 3 responses are not ok, and
\* ends once its fetches are answered.
C25_BoundedRetriesAndTermination ==
    /\ []BoundedRetries
    /\ RequestRunning ~> RequestEnded

\* a call threw after 3 responses that were not ok, and it was the second
\* call
C25_Witness ==
    /\ req.pc = "threw"
    /\ req.attempts = 3
    /\ Len(req.seen) = 3
    /\ \A k \in 1..3 : ~Ok(req.seen[k])
    /\ req.n = 2

---------------------------------------------------------------------------
(* Properties of HabitLogForm *)

\* the keys of formData whose value is a number above 0
LoggedKeys(formData) ==
    { k \in HabitKeys : formData[k].t = "number" /\ formData[k].n >= 1 }

\* C26: the payload handed to api.habits.log holds exactly the entries of the
\* form whose value is not null and above 0, with their values; an entry
\* that is null, 0, negative or NaN is not in it.
C26_OnlyLoggedHabitsSent ==
    [][form'.nSubmit > form.nSubmit =>
          LET payload == form'.sent[1]
          IN  /\ DOMAIN payload = LoggedKeys(form.formData)
              /\ \A k \in DOMAIN payload : payload[k] = form.formData[k]
              /\ \A k \in HabitKeys :
                     form.formData[k] \in {JsNull, NaN, Num(0), Num(-5)} =>
                         k \notin DOMAIN payload]_vars

\* a form with sleep 8, study NaN and nutrition 0 was submitted and only
\* sleep was sent
C26_Witness ==
    /\ form.sent # <<>>
    /\ form.formData = [sleep |-> Num(80), study |-> NaN, nutrition |-> Num(0)]
    /\ DOMAIN form.sent[1] = {"sleep"}
    /\ form.sent[1]["sleep"] = Num(80)

---------------------------------------------------------------------------
(* Properties of useAuthProvider *)

\* line 171
isAuthenticated == auth.user # "null"

\* C28: whenever login or register returns true, a token is stored in
\* localStorage and user is not null, also when the request of fetchUser
\* failed.
C28_TrueOnlyWhenAuthenticated ==
    [][\A i \in DOMAIN auth.calls :
          (auth.calls[i].ret = "pending" /\ auth'.calls[i].ret = "true") =>
              /\ auth'.token # "none"
              /\ auth'.user # "null"]_vars

\* C29: once logout() ran, the token is absent and isAuthenticated is false
\* until a login or register is accepted, also when a fetchUser or refreshUser
\* that was in flight at the logout completes afterwards.
C29_LoggedOutStaysLoggedOut ==
    auth.loggedOut => (auth.token = "none" /\ ~isAuthenticated)

===========================================================================
